---- MODULE Spec2Model ----
(***************************************************************************)
(* A model of the tag-advance decision engine of the Rust RTI               *)
(* (rust/rti/src/rti_common.rs, rust/rti/src/tag.rs).                       *)
(*                                                                         *)
(* Every block `{ let mut locked_rti = _f_rti.lock().unwrap(); ... }` of   *)
(* the source is one critical section on the federation mutex.  A handler   *)
(* thread (one per federate) runs on_net / on_ltc as a sequence of such     *)
(* critical sections, and the threads interleave between them.             *)
(***************************************************************************)
EXTENDS Integers, Sequences, FiniteSets, TLC

\* ------------------------------------------------------------------ widths
\* i64 and u32 are scaled down to TimeBits and MicrostepBits bits, so that the
\* sentinels and the wrap-around of the arithmetic stay inside TLC's integers.
TimeBits == 5
MicrostepBits == 2

RECURSIVE Pow2(_)
Pow2(n) == IF n = 0 THEN 1 ELSE 2 * Pow2(n - 1)

\* tag.rs:34-37
NEVER == -Pow2(TimeBits - 1)
FOREVER == Pow2(TimeBits - 1) - 1
NEVER_MICROSTEP == 0
FOREVER_MICROSTEP == Pow2(MicrostepBits) - 1

TimeRange == NEVER..FOREVER
MicrostepRange == 0..FOREVER_MICROSTEP

\* Two's complement wrap of a signed value (release-build i64 arithmetic).
WrapI64(x) == ((x - NEVER) % Pow2(TimeBits)) + NEVER
\* Wrap of an unsigned value (release-build u32 arithmetic).
WrapU32(x) == x % Pow2(MicrostepBits)

\* ------------------------------------------------------------------ tags
\* tag.rs:61-64
Tag(t, m) == [time |-> t, microstep |-> m]
zero_tag == Tag(0, 0)
never_tag == Tag(NEVER, 0)
forever_tag == Tag(FOREVER, FOREVER_MICROSTEP)

\* Interval = Option<i64>: None is <<>>, Some(n) is <<n>>.
None == << >>
Some(n) == << n >>
unwrap(d) == d[1]
\* The derived ordering of Option<i64>: None is below every Some.
IntervalLt(a, b) ==
    IF a = None THEN b # None
    ELSE IF b = None THEN FALSE
    ELSE unwrap(a) < unwrap(b)

\* lf_tag_compare with the microsteps left out of the comparison.
lf_tag_compare_time_only(tag1, tag2) ==
    IF tag1.time < tag2.time THEN -1
    ELSE IF tag1.time > tag2.time THEN 1
    ELSE 0

\* tag.rs:110-129
lf_tag_compare(tag1, tag2) ==
    IF tag1.time < tag2.time THEN -1
    ELSE IF tag1.time > tag2.time THEN 1
    ELSE IF tag1.microstep < tag2.microstep THEN -1
    ELSE IF tag1.microstep > tag2.microstep THEN 1
    ELSE 0

\* lf_delay_tag with the one-microstep case ahead of the overflow test.
lf_delay_tag_zero_first(tag, interval) ==
    IF tag.time = NEVER \/ IntervalLt(interval, Some(0)) THEN tag
    ELSE IF interval = Some(0)
         THEN Tag(tag.time, WrapU32(tag.microstep + 1))
    ELSE IF tag.time >= FOREVER - unwrap(interval) THEN forever_tag
    ELSE Tag(WrapI64(tag.time + unwrap(interval)), 0)

\* tag.rs:131-166
lf_delay_tag(tag, interval) ==
    IF tag.time = NEVER \/ IntervalLt(interval, Some(0)) THEN tag
    ELSE IF tag.time >= FOREVER - unwrap(interval) THEN forever_tag
    ELSE IF interval = Some(0)
         THEN Tag(tag.time, WrapU32(tag.microstep + 1))
         ELSE Tag(WrapI64(tag.time + unwrap(interval)), 0)

\* lf_delay_strict with the step back to the tag just before lost.
lf_delay_strict_not_strict(tag, interval) == lf_delay_tag(tag, interval)

\* tag.rs:168-186
lf_delay_strict(tag, interval) ==
    LET result == lf_delay_tag(tag, interval) IN
    IF /\ interval # Some(0)
       /\ interval # Some(NEVER)
       /\ interval # Some(FOREVER)
       /\ result.time # NEVER
       /\ result.time # FOREVER
    THEN Tag(WrapI64(result.time - 1), FOREVER_MICROSTEP)
    ELSE result

\* lf_tag_add with the FOREVER test ahead of the NEVER test.
lf_tag_add_forever_first(a, b) ==
    IF a.time = FOREVER \/ b.time = FOREVER THEN forever_tag
    ELSE IF a.time = NEVER \/ b.time = NEVER THEN never_tag
    ELSE LET result == Tag(WrapI64(a.time + b.time),
                           WrapU32(a.microstep + b.microstep)) IN
         IF result.microstep < a.microstep THEN forever_tag
         ELSE IF result.time < a.time /\ b.time > 0 THEN forever_tag
         ELSE IF result.time > a.time /\ b.time < 0 THEN never_tag
         ELSE result

\* tag.rs:188-206
lf_tag_add(a, b) ==
    IF a.time = NEVER \/ b.time = NEVER THEN never_tag
    ELSE IF a.time = FOREVER \/ b.time = FOREVER THEN forever_tag
    ELSE LET result == Tag(WrapI64(a.time + b.time),
                           WrapU32(a.microstep + b.microstep)) IN
         IF result.microstep < a.microstep THEN forever_tag
         ELSE IF result.time < a.time /\ b.time > 0 THEN forever_tag
         ELSE IF result.time > a.time /\ b.time < 0 THEN never_tag
         ELSE result

\* ------------------------------------------------------------------ state
\* rti_common.rs:27-28
IS_IN_ZERO_DELAY_CYCLE == 1
IS_IN_CYCLE == 2

\* flags | b, flags & !b, (flags & b) != 0 for a one-bit mask b.
FlagOr(f, b) == IF (f \div b) % 2 = 1 THEN f ELSE f + b
FlagClear(f, b) == IF (f \div b) % 2 = 1 THEN f - b ELSE f
FlagTest(f, b) == (f \div b) % 2 = 1

VARIABLES
    \* the connection graph, static after configuration (rti_common.rs:79-84)
    upstream,          \* node -> sequence of upstream ids
    upstream_delay,    \* node -> sequence of intervals, one per upstream
    downstream,        \* node -> sequence of downstream ids
    \* SchedulingNode fields (rti_common.rs:72-89)
    completed,
    last_granted,
    last_provisionally_granted,
    next_event,
    state,
    min_delays,        \* node -> sequence of [id, min_delay]
    num_min_delays,
    flags,
    \* sent_start_time: the bool behind the start-time condition variable
    notified,
    \* the federation mutex: "free" between critical sections, or the way in
    \* which it has been lost for good
    rti_mutex,
    \* handler threads, one per federate
    pc,                \* thread -> position
    targets,           \* thread -> nodes still to be tried by the current call
    loc,               \* thread -> locals of the grant attempt in progress
    calls,             \* number of notifications received so far
    \* the call of a function of tag.rs under examination: the function, its
    \* arguments, and what came back
    tag_call,
    \* a run of update_min_delays_upstream followed step by step: the end
    \* node, the frames of _update_min_delays_upstream, path_delays and count
    relax,
    \* the NET messages received: node -> the tag of the last NET the
    \* federate sent itself, never_tag while it has sent none
    reported

graph == <<upstream, upstream_delay, downstream>>
nodes == <<completed, last_granted, last_provisionally_granted, next_event,
           state, min_delays, num_min_delays, flags>>
threads == <<pc, targets, loc>>
vars == <<graph, nodes, notified, rti_mutex, threads, calls, tag_call, relax, reported>>

Nodes == DOMAIN upstream
number_of_scheduling_nodes == Cardinality(Nodes)
num_upstream(n) == Len(upstream[n])
num_downstream(n) == Len(downstream[n])

\* Vec::insert(idx, v): every element from idx on moves one place right.
VecInsert(vec, idx, v) ==
    SubSeq(vec, 1, idx) \o << v >> \o SubSeq(vec, idx + 1, Len(vec))

\* ------------------------------------------------------------------ min delays
\* rti_common.rs:44-47
MinimumDelay(id, d) == [id |-> id, min_delay |-> d]

\* rti_common.rs:877-971.  acc = [pd, count, flags]: path_delays, *count and
\* the flags of the end node.  UpdateLoop is the `for i in 0..num_upstream`.
RECURSIVE _update_min_delays_upstream(_, _, _)
RECURSIVE UpdateLoop(_, _, _, _, _)
_update_min_delays_upstream(end_idx, intermediate_idx, acc) ==
    LET inter == IF intermediate_idx < 0 THEN end_idx ELSE intermediate_idx
        delay_from_intermediate_so_far ==
            IF intermediate_idx < 0 THEN zero_tag ELSE acc.pd[intermediate_idx + 1]
    IN  IF state[inter] = "NotConnected" THEN acc
        ELSE UpdateLoop(end_idx, inter, delay_from_intermediate_so_far, 1, acc)

UpdateLoop(end_idx, inter, delay, i, acc) ==
    IF i > num_upstream(inter) THEN acc
    ELSE
      LET upstream_idx == upstream[inter][i]
          d == upstream_delay[inter][i]
          path_delay == lf_delay_tag(delay, d)
      IN  IF lf_tag_compare(path_delay, acc.pd[upstream_idx + 1]) < 0
          THEN
            LET cnt == IF acc.pd[upstream_idx + 1].time = FOREVER
                       THEN acc.count + 1 ELSE acc.count
                pd2 == VecInsert(acc.pd, upstream_idx, path_delay)
                acc1 == [acc EXCEPT !.pd = pd2, !.count = cnt]
                acc2 ==
                  IF end_idx # upstream_idx
                  THEN _update_min_delays_upstream(end_idx, inter, acc1)
                  ELSE LET f1 == FlagOr(acc1.flags, IS_IN_CYCLE) IN
                       [acc1 EXCEPT !.flags =
                          IF lf_tag_compare(path_delay, zero_tag) = 0
                             /\ IntervalLt(d, Some(0))
                          THEN FlagOr(f1, IS_IN_ZERO_DELAY_CYCLE)
                          ELSE FlagClear(f1, IS_IN_ZERO_DELAY_CYCLE)]
            IN  UpdateLoop(end_idx, inter, delay, i + 1, acc2)
          ELSE UpdateLoop(end_idx, inter, delay, i + 1, acc)

\* The entries of path_delays[0..number_of_scheduling_nodes] below FOREVER, in
\* index order (rti_common.rs:850-870).
RECURSIVE FiniteEntries(_, _)
FiniteEntries(pd, i) ==
    IF i >= number_of_scheduling_nodes THEN << >>
    ELSE (IF lf_tag_compare(pd[i + 1], forever_tag) < 0
          THEN << MinimumDelay(i, pd[i + 1]) >> ELSE << >>)
         \o FiniteEntries(pd, i + 1)

\* rti_common.rs:804-873.  The outcome for node_idx: what the node's
\* min_delays, num_min_delays and flags become, and whether the
\* "Internal error!" branch ends the process (std::process::exit(1)).
update_min_delays_upstream(node_idx) ==
    IF num_min_delays[node_idx] # 0
    THEN [exit |-> FALSE, min_delays |-> min_delays[node_idx],
          num_min_delays |-> num_min_delays[node_idx], flags |-> flags[node_idx]]
    ELSE
      LET acc == _update_min_delays_upstream(node_idx, -1,
                    [pd |-> [i \in 1..number_of_scheduling_nodes |-> forever_tag],
                     count |-> 0, flags |-> flags[node_idx]])
          found == FiniteEntries(acc.pd, 0)
      IN  [exit |-> Len(found) > acc.count,
           min_delays |-> found \o min_delays[node_idx],
           num_min_delays |-> acc.count,
           flags |-> acc.flags]

\* ------------------------------------------------------------------ bounds
\* NET and LTC tags are drawn from times start_time..MaxTime, microstep 0.
MaxTime == 1
\* The number of NET / LTC notifications of one run.
MaxCalls == 3

\* The start time agreed at the handshake (the start_time parameter of every
\* entry point, rti_common.rs:226).
start_time == 0

InputTags == { Tag(t, 0) : t \in start_time..MaxTime }

\* ------------------------------------------------------------------ graphs
\* A topology gives, per node id, the list of (upstream id, delay) as it was
\* registered.  Self-loops and repeated ids are legal inputs.
Edge(u, d) == << u, d >>
Chain == [n \in 0..1 |-> IF n = 1 THEN << Edge(0, Some(1)) >> ELSE << >>]
Cycle == [n \in 0..1 |-> << Edge(1 - n, None) >>]
Loop == [n \in 0..1 |-> IF n = 1 THEN << Edge(0, None), Edge(1, None) >> ELSE << >>]
\* Node 1 with node 0 as its only upstream, through a no-delay edge.
Direct == [n \in 0..1 |-> IF n = 1 THEN << Edge(0, None) >> ELSE << >>]
Topologies == { Chain, Cycle, Loop, Direct }

\* The downstream list of u that matches the upstream lists: ids ascending.
RECURSIVE DownstreamOf(_, _, _)
DownstreamOf(topo, u, n) ==
    IF n \notin DOMAIN topo THEN << >>
    ELSE (IF \E j \in 1..Len(topo[n]) : topo[n][j][1] = u THEN << n >> ELSE << >>)
         \o DownstreamOf(topo, u, n + 1)

\* ------------------------------------------------------------------ Init
\* SchedulingNode::new (rti_common.rs:92-110) for every node, the graph as
\* configured, every handler thread idle.
LocInit == [n0 |-> 0, i |-> 0, t_d |-> forever_tag, tag |-> never_tag,
            written |-> "none", error_occurred |-> FALSE]

\* No function of tag.rs has been called.
NoCall == [fn |-> "none", a |-> never_tag, b |-> never_tag, interval |-> None,
           result |-> never_tag, ordering |-> 0, panicked |-> FALSE]

\* No run of update_min_delays_upstream is being followed.
NoRelax == [active |-> FALSE, end_idx |-> 0, stack |-> << >>,
            path_delays |-> << >>, count |-> 0]

InitOn(topologies) ==
    /\ \E topo \in topologies :
         /\ upstream = [n \in DOMAIN topo |-> [j \in 1..Len(topo[n]) |-> topo[n][j][1]]]
         /\ upstream_delay = [n \in DOMAIN topo |-> [j \in 1..Len(topo[n]) |-> topo[n][j][2]]]
         /\ downstream = [n \in DOMAIN topo |-> DownstreamOf(topo, n, 0)]
    /\ completed = [n \in Nodes |-> never_tag]
    /\ last_granted = [n \in Nodes |-> never_tag]
    /\ last_provisionally_granted = [n \in Nodes |-> never_tag]
    /\ next_event = [n \in Nodes |-> never_tag]
    /\ state = [n \in Nodes |-> "NotConnected"]
    /\ min_delays = [n \in Nodes |-> << >>]
    /\ num_min_delays = [n \in Nodes |-> 0]
    /\ flags = [n \in Nodes |-> 0]
    /\ notified = FALSE
    /\ rti_mutex = "free"
    /\ pc = [n \in Nodes |-> "idle"]
    /\ targets = [n \in Nodes |-> << >>]
    /\ loc = [n \in Nodes |-> LocInit]
    /\ calls = 0
    /\ tag_call = NoCall
    /\ relax = NoRelax
    /\ reported = [n \in Nodes |-> never_tag]

Init == InitOn(Topologies)

\* ------------------------------------------------------------------ handshake
\* NotConnected -> Pending: the federate has connected.  A federate joins
\* once, before it has been heard of.
Connect(f) ==
    /\ rti_mutex = "free"
    /\ state[f] = "NotConnected"
    /\ calls = 0
    /\ state' = [state EXCEPT ![f] = "Pending"]
    /\ UNCHANGED <<tag_call, relax, reported, graph, completed, last_granted, last_provisionally_granted,
                   next_event, min_delays, num_min_delays, flags, notified,
                   rti_mutex, threads, calls>>

\* Pending -> Granted: the start-time message has been sent to f; under the
\* federation mutex the state is set and the condition variable signalled.
StartTimeSent(f) ==
    /\ rti_mutex = "free"
    /\ state[f] = "Pending"
    /\ state' = [state EXCEPT ![f] = "Granted"]
    /\ notified' = TRUE
    /\ UNCHANGED <<tag_call, relax, reported, graph, completed, last_granted, last_provisionally_granted,
                   next_event, min_delays, num_min_delays, flags,
                   rti_mutex, threads, calls>>

\* ------------------------------------------------------------------ walks
\* rti_common.rs:973-1022: the nodes notify_downstream_advance_grant_if_safe
\* tries, in order, and the visited set it leaves.  The graph is static, so
\* the order is fixed when the call starts.
RECURSIVE notify_downstream_walk(_, _)
RECURSIVE DownstreamLoop(_, _, _)
notify_downstream_walk(fed_id, visited) ==
    DownstreamLoop(fed_id, 1, [order |-> << >>, visited |-> visited \cup {fed_id}])

DownstreamLoop(fed_id, i, acc) ==
    IF i > num_downstream(fed_id) THEN acc
    ELSE LET e_id == downstream[fed_id][i] IN
         IF e_id \in acc.visited THEN DownstreamLoop(fed_id, i + 1, acc)
         ELSE LET sub == notify_downstream_walk(e_id, acc.visited) IN
              DownstreamLoop(fed_id, i + 1,
                  [order |-> acc.order \o << e_id >> \o sub.order,
                   visited |-> sub.visited])

\* NetTargets with the test `num_upstream > 0` lost: the node itself is tried
\* whether or not it has upstream nodes.
NetTargetsAlways(fed_id) ==
    << fed_id >> \o notify_downstream_walk(fed_id, {}).order

\* NetTargets with the downstream walk made twice.
NetTargetsRepeated(fed_id) ==
    (IF num_upstream(fed_id) > 0 THEN << fed_id >> ELSE << >>)
    \o notify_downstream_walk(fed_id, {}).order
    \o notify_downstream_walk(fed_id, {}).order

\* rti_common.rs:247-270: the grant attempts of one on_net, in order.
NetTargets(fed_id) ==
    (IF num_upstream(fed_id) > 0 THEN << fed_id >> ELSE << >>)
    \o notify_downstream_walk(fed_id, {}).order

\* rti_common.rs:1058-1086: the grant attempts of one on_ltc, in order.
RECURSIVE LtcTargets(_, _)
LtcTargets(fed_id, i) ==
    IF i > num_downstream(fed_id) THEN << >>
    ELSE LET e_id == downstream[fed_id][i] IN
         << e_id >> \o notify_downstream_walk(e_id, {}).order
         \o LtcTargets(fed_id, i + 1)

\* The thread starts on its list of grant attempts, or is done at once.
Begin(h, list) ==
    /\ targets' = [targets EXCEPT ![h] = list]
    /\ pc' = [pc EXCEPT ![h] = IF list = << >> THEN "idle" ELSE "fast"]
    /\ loc' = [loc EXCEPT ![h] = LocInit]

\* The current grant attempt returns: on to the next node of the call.
Return(h) == Begin(h, Tail(targets[h]))

\* ------------------------------------------------------------------ entry points
\* rti_common.rs:222-271, first critical section.  The handler thread of
\* federate h receives NET(h, next_event_tag).
OnNet(h, next_event_tag) ==
    /\ rti_mutex = "free"
    /\ pc[h] = "idle"
    /\ state[h] = "Granted"
    /\ calls < MaxCalls
    /\ calls' = calls + 1
    /\ next_event' = [next_event EXCEPT ![h] = next_event_tag]
    /\ reported' = [reported EXCEPT ![h] = next_event_tag]
    /\ Begin(h, NetTargets(h))
    /\ UNCHANGED <<tag_call, relax, graph, completed, last_granted, last_provisionally_granted,
                   state, min_delays, num_min_delays, flags, notified, rti_mutex>>

\* rti_common.rs:1024-1087, first critical section.  The handler thread of
\* federate h receives LTC(h, tag).
OnLtc(h, tag) ==
    /\ rti_mutex = "free"
    /\ pc[h] = "idle"
    /\ state[h] = "Granted"
    /\ calls < MaxCalls
    /\ calls' = calls + 1
    /\ completed' = [completed EXCEPT ![h] = tag]
    /\ Begin(h, LtcTargets(h, 1))
    /\ UNCHANGED <<tag_call, relax, reported, graph, next_event, last_granted, last_provisionally_granted,
                   state, min_delays, num_min_delays, flags, notified, rti_mutex>>

\* ------------------------------------------------------------------ decision
\* The node the thread is trying to grant.
Target(h) == Head(targets[h])

\* The earliest adjusted LTC with the nodes that are not connected counted.
RECURSIVE min_upstream_completed_of_all(_, _)
min_upstream_completed_of_all(fed_id, j) ==
    IF j > Len(upstream[fed_id]) THEN forever_tag
    ELSE LET rest == min_upstream_completed_of_all(fed_id, j + 1)
             up == upstream[fed_id][j]
             candidate == lf_delay_strict(completed[up], upstream_delay[fed_id][j])
         IN  IF lf_tag_compare(candidate, rest) <= 0 THEN candidate ELSE rest

\* rti_common.rs:314-338: the earliest LTC of the connected upstream nodes,
\* adjusted by the after delay (M).
RECURSIVE min_upstream_completed(_, _)
min_upstream_completed(fed_id, j) ==
    IF j > Len(upstream[fed_id]) THEN forever_tag
    ELSE LET rest == min_upstream_completed(fed_id, j + 1)
             up == upstream[fed_id][j]
             candidate == lf_delay_strict(completed[up], upstream_delay[fed_id][j])
         IN  IF state[up] = "NotConnected" THEN rest
             ELSE IF lf_tag_compare(candidate, rest) <= 0 THEN candidate ELSE rest

\* rti_common.rs:346-347: the test of the completed-tag path.
FastPathFires(fed_id) ==
    LET m == min_upstream_completed(fed_id, 1) IN
    /\ lf_tag_compare(m, last_granted[fed_id]) > 0
    /\ lf_tag_compare(m, next_event[fed_id]) >= 0

\* rti_common.rs:312-353: tag_advance_grant_if_safe, first critical section.
FastPath(h) ==
    /\ rti_mutex = "free"
    /\ pc[h] = "fast"
    /\ IF FastPathFires(Target(h))
       THEN /\ pc' = [pc EXCEPT ![h] = "tag_check"]
            /\ loc' = [loc EXCEPT ![h].tag = min_upstream_completed(Target(h), 1)]
       ELSE /\ pc' = [pc EXCEPT ![h] = "eimt"]
            /\ loc' = loc
    /\ UNCHANGED <<tag_call, relax, reported, graph, nodes, notified, rti_mutex, targets, calls>>

\* rti_common.rs:738-750: earliest_future_incoming_message_tag reads
\* num_min_delays, and only then brings min_delays up to date.
EimtBegin(h) ==
    /\ rti_mutex = "free"
    /\ pc[h] = "eimt"
    /\ LET e == Target(h)
           r == update_min_delays_upstream(e)
       IN  IF r.exit
           THEN /\ rti_mutex' = "exited"
                /\ UNCHANGED <<min_delays, num_min_delays, flags, threads>>
           ELSE /\ min_delays' = [min_delays EXCEPT ![e] = r.min_delays]
                /\ num_min_delays' = [num_min_delays EXCEPT ![e] = r.num_min_delays]
                /\ flags' = [flags EXCEPT ![e] = r.flags]
                /\ loc' = [loc EXCEPT ![h].n0 = num_min_delays[e], ![h].i = 0,
                                      ![h].t_d = forever_tag]
                /\ pc' = [pc EXCEPT ![h] = IF num_min_delays[e] = 0 THEN "decide"
                                           ELSE "eimt_loop"]
                /\ UNCHANGED <<rti_mutex, targets>>
    /\ UNCHANGED <<tag_call, relax, reported, graph, completed, last_granted, last_provisionally_granted,
                   next_event, state, notified, calls>>

\* rti_common.rs:756-800: one iteration of the loop over 0..num_min_delays.
\* Indexing min_delays past its end panics with the mutex held.
EimtIter(h) ==
    /\ rti_mutex = "free"
    /\ pc[h] = "eimt_loop"
    /\ LET e == Target(h)
           i == loc[h].i
       IN  IF i + 1 > Len(min_delays[e])
           THEN /\ rti_mutex' = "poisoned"
                /\ UNCHANGED <<next_event, threads>>
           ELSE LET upstream_id == min_delays[e][i + 1].id
                    upstream_next_event == next_event[upstream_id]
                    min_delay == min_delays[e][i + 1].min_delay
                    earliest_tag_from_upstream == lf_tag_add(upstream_next_event, min_delay)
                IN  /\ next_event' =
                         IF lf_tag_compare(upstream_next_event, never_tag) = 0
                         THEN [next_event EXCEPT ![upstream_id] = Tag(start_time, 0)]
                         ELSE next_event
                    /\ loc' = [loc EXCEPT
                         ![h].i = i + 1,
                         ![h].t_d = IF lf_tag_compare(earliest_tag_from_upstream, loc[h].t_d) < 0
                                    THEN earliest_tag_from_upstream ELSE loc[h].t_d]
                    /\ pc' = [pc EXCEPT ![h] = IF i + 1 >= loc[h].n0 THEN "decide"
                                               ELSE "eimt_loop"]
                    /\ UNCHANGED <<rti_mutex, targets>>
    /\ UNCHANGED <<tag_call, relax, reported, graph, completed, last_granted, last_provisionally_granted,
                   state, min_delays, num_min_delays, flags, notified, calls>>

\* Scenario (1) with the EIMT allowed to equal the NET.
Case1AtNet(t_d, fed_id) ==
    /\ lf_tag_compare(t_d, next_event[fed_id]) >= 0
    /\ lf_tag_compare(t_d, last_provisionally_granted[fed_id]) >= 0
    /\ lf_tag_compare(t_d, last_granted[fed_id]) > 0

\* rti_common.rs:390-396: scenario (1), a TAG at the NET.
Case1(t_d, fed_id) ==
    /\ lf_tag_compare(t_d, next_event[fed_id]) > 0
    /\ lf_tag_compare(t_d, last_provisionally_granted[fed_id]) >= 0
    /\ lf_tag_compare(t_d, last_granted[fed_id]) > 0

\* rti_common.rs:407-412 without the zero-delay-cycle test.
Case2(t_d, fed_id) ==
    /\ lf_tag_compare(t_d, last_provisionally_granted[fed_id]) > 0
    /\ lf_tag_compare(t_d, last_granted[fed_id]) > 0

\* is_in_zero_delay_cycle with the flag test lost: every node counts as being
\* on a zero-delay cycle.
is_in_zero_delay_cycle_always(node_flags) == TRUE

\* rti_common.rs:428-439: the test of the flag, on the flags that
\* update_min_delays_upstream has just left.
is_in_zero_delay_cycle(node_flags) == FlagTest(node_flags, IS_IN_ZERO_DELAY_CYCLE)

\* rti_common.rs:378-426 and 282-301: the decision on the EIMT, and the
\* dispatch of notify_advance_grant_if_safe.  is_in_zero_delay_cycle
\* (rti_common.rs:428-439) is evaluated only when the EIMT equals the NET;
\* it brings min_delays up to date before it reads the flag.
Decide(h) ==
    /\ rti_mutex = "free"
    /\ pc[h] = "decide"
    /\ LET e == Target(h)
           t_d == loc[h].t_d
           r == update_min_delays_upstream(e)
       IN  IF Case1(t_d, e)
           THEN /\ IF lf_tag_compare(next_event[e], never_tag) # 0
                   THEN /\ pc' = [pc EXCEPT ![h] = "tag_check"]
                        /\ loc' = [loc EXCEPT ![h].tag = next_event[e]]
                        /\ UNCHANGED targets
                   ELSE Return(h)
                /\ UNCHANGED <<min_delays, num_min_delays, flags, rti_mutex>>
           ELSE IF lf_tag_compare(t_d, next_event[e]) # 0
           THEN /\ Return(h)
                /\ UNCHANGED <<min_delays, num_min_delays, flags, rti_mutex>>
           ELSE IF r.exit
           THEN /\ rti_mutex' = "exited"
                /\ UNCHANGED <<min_delays, num_min_delays, flags, threads>>
           ELSE /\ min_delays' = [min_delays EXCEPT ![e] = r.min_delays]
                /\ num_min_delays' = [num_min_delays EXCEPT ![e] = r.num_min_delays]
                /\ flags' = [flags EXCEPT ![e] = r.flags]
                /\ IF /\ is_in_zero_delay_cycle(r.flags)
                      /\ Case2(t_d, e)
                      /\ lf_tag_compare(next_event[e], never_tag) # 0
                   THEN /\ pc' = [pc EXCEPT ![h] = "ptag_check"]
                        /\ loc' = [loc EXCEPT ![h].tag = next_event[e]]
                        /\ UNCHANGED targets
                   ELSE Return(h)
                /\ UNCHANGED rti_mutex
    /\ UNCHANGED <<tag_call, relax, reported, graph, completed, last_granted, last_provisionally_granted,
                   next_event, state, notified, calls>>

\* ------------------------------------------------------------------ issue
\* rti_common.rs:512-514 and 601-603: the grant is dropped.
Redundant(fed_id, tag) ==
    \/ state[fed_id] = "NotConnected"
    \/ lf_tag_compare(tag, last_granted[fed_id]) <= 0
    \/ lf_tag_compare(tag, last_provisionally_granted[fed_id]) <= 0

\* What stream.write can answer: the whole frame, a part of it, an error.
WriteOutcomes == { "ok", "short", "err" }

\* rti_common.rs:506-528, and 595-617 which is the same text.  The loop on
\* `e.state() == Pending` runs with the federation mutex held, so the state
\* it tests cannot change: the thread stays there, and keeps the mutex.
Check(h, next_pc) ==
    /\ rti_mutex = "free"
    /\ LET e == Target(h) IN
       IF Redundant(e, loc[h].tag)
       THEN /\ Return(h)
            /\ UNCHANGED rti_mutex
       ELSE IF state[e] = "Pending"
       THEN /\ pc' = [pc EXCEPT ![h] = "wait"]
            /\ rti_mutex' = "held"
            /\ UNCHANGED <<targets, loc>>
       ELSE /\ pc' = [pc EXCEPT ![h] = next_pc]
            /\ UNCHANGED <<targets, loc, rti_mutex>>
    /\ UNCHANGED <<tag_call, relax, reported, graph, nodes, notified, calls>>

\* notify_tag_advance_grant, rti_common.rs:506-528.
TagCheck(h) ==
    /\ pc[h] = "tag_check"
    /\ Check(h, "tag_write")

\* notify_tag_advance_grant, rti_common.rs:544-565: the write.  Only Err sets
\* error_occurred; a short write is printed.
TagWrite(h, outcome) ==
    /\ rti_mutex = "free"
    /\ pc[h] = "tag_write"
    /\ pc' = [pc EXCEPT ![h] = "tag_update"]
    /\ loc' = [loc EXCEPT ![h].written = outcome,
                          ![h].error_occurred = (outcome = "err")]
    /\ UNCHANGED <<tag_call, relax, reported, graph, nodes, notified, rti_mutex, targets, calls>>

\* TagUpdate with the else of `if error_occurred` lost: last_granted is
\* recorded whether or not the write failed.
TagUpdateAlwaysRecords(h) ==
    /\ rti_mutex = "free"
    /\ pc[h] = "tag_update"
    /\ LET e == Target(h) IN
       /\ state' = IF loc[h].error_occurred
                   THEN [state EXCEPT ![e] = "NotConnected"] ELSE state
       /\ last_granted' = [last_granted EXCEPT ![e] = loc[h].tag]
    /\ Return(h)
    /\ UNCHANGED <<tag_call, relax, reported, graph, completed, last_provisionally_granted, next_event,
                   min_delays, num_min_delays, flags, notified, rti_mutex, calls>>

\* notify_tag_advance_grant, rti_common.rs:566-585.
TagUpdate(h) ==
    /\ rti_mutex = "free"
    /\ pc[h] = "tag_update"
    /\ LET e == Target(h) IN
       IF loc[h].error_occurred
       THEN /\ state' = [state EXCEPT ![e] = "NotConnected"]
            /\ UNCHANGED last_granted
       ELSE /\ last_granted' = [last_granted EXCEPT ![e] = loc[h].tag]
            /\ UNCHANGED state
    /\ Return(h)
    /\ UNCHANGED <<tag_call, relax, reported, graph, completed, last_provisionally_granted, next_event,
                   min_delays, num_min_delays, flags, notified, rti_mutex, calls>>

\* notify_provisional_tag_advance_grant, rti_common.rs:595-617.
PtagCheck(h) ==
    /\ pc[h] = "ptag_check"
    /\ Check(h, "ptag_write")

\* notify_provisional_tag_advance_grant, rti_common.rs:632-654: the write.
\* A short write returns from the function at once.
PtagWrite(h, outcome) ==
    /\ rti_mutex = "free"
    /\ pc[h] = "ptag_write"
    /\ IF outcome = "short"
       THEN Return(h)
       ELSE /\ pc' = [pc EXCEPT ![h] = "ptag_update"]
            /\ loc' = [loc EXCEPT ![h].written = outcome,
                                  ![h].error_occurred = (outcome = "err")]
            /\ UNCHANGED targets
    /\ UNCHANGED <<tag_call, relax, reported, graph, nodes, notified, rti_mutex, calls>>

\* notify_provisional_tag_advance_grant, rti_common.rs:655-691.
PtagUpdate(h) ==
    /\ rti_mutex = "free"
    /\ pc[h] = "ptag_update"
    /\ LET e == Target(h) IN
       /\ state' = IF loc[h].error_occurred
                   THEN [state EXCEPT ![e] = "NotConnected"] ELSE state
       /\ last_provisionally_granted' =
              [last_provisionally_granted EXCEPT ![e] = loc[h].tag]
    /\ pc' = [pc EXCEPT ![h] = "ptag_upstream"]
    /\ loc' = [loc EXCEPT ![h].i = 0]
    /\ UNCHANGED <<tag_call, relax, reported, graph, completed, last_granted, next_event, min_delays,
                   num_min_delays, flags, notified, rti_mutex, targets, calls>>

\* What locking a std::sync::Mutex again on the thread that holds it can do:
\* block for ever, or panic (which poisons the mutex).
RelockOutcomes == { "deadlock", "poisoned" }

\* notify_provisional_tag_advance_grant, rti_common.rs:692-730: one iteration
\* of the loop over the upstream nodes.  For a connected upstream node
\* earliest_future_incoming_message_tag is called inside the critical
\* section (rti_common.rs:696-716) and locks the federation mutex again.
PtagUpstream(h, relock) ==
    /\ rti_mutex = "free"
    /\ pc[h] = "ptag_upstream"
    /\ LET e == Target(h)
           j == loc[h].i
       IN  IF j >= num_upstream(e)
           THEN /\ Return(h)
                /\ UNCHANGED rti_mutex
           ELSE IF state[upstream[e][j + 1]] = "NotConnected"
           THEN /\ loc' = [loc EXCEPT ![h].i = j + 1]
                /\ UNCHANGED <<pc, targets, rti_mutex>>
           ELSE /\ rti_mutex' = relock
                /\ UNCHANGED threads
    /\ UNCHANGED <<tag_call, relax, reported, graph, nodes, notified, calls>>

\* ------------------------------------------------------------------ Next
Next ==
    \/ \E f \in Nodes : Connect(f)
    \/ \E f \in Nodes : StartTimeSent(f)
    \/ \E h \in Nodes, t \in InputTags : OnNet(h, t)
    \/ \E h \in Nodes, t \in InputTags : OnLtc(h, t)
    \/ \E h \in Nodes : FastPath(h)
    \/ \E h \in Nodes : EimtBegin(h)
    \/ \E h \in Nodes : EimtIter(h)
    \/ \E h \in Nodes : Decide(h)
    \/ \E h \in Nodes : TagCheck(h)
    \/ \E h \in Nodes, o \in WriteOutcomes : TagWrite(h, o)
    \/ \E h \in Nodes : TagUpdate(h)
    \/ \E h \in Nodes : PtagCheck(h)
    \/ \E h \in Nodes, o \in WriteOutcomes : PtagWrite(h, o)
    \/ \E h \in Nodes : PtagUpdate(h)
    \/ \E h \in Nodes, r \in RelockOutcomes : PtagUpstream(h, r)

Spec == Init /\ [][Next]_vars

\* The handler threads and the handshake are scheduled fairly: a step that
\* stays possible is taken.
LiveSpec == Init /\ [][Next]_vars /\ WF_vars(Next)

\* ------------------------------------------------------------------ min-delay cache alone
\* Graphs of three nodes for the computation of min_delays: a chain with a
\* transitive upstream node, a ring of no-delay edges, and a node whose
\* upstream list is not in id order.
Chain3 == [n \in 0..2 |-> IF n = 0 THEN << >> ELSE << Edge(n - 1, Some(1)) >>]
Ring3 == [n \in 0..2 |-> << Edge((n + 2) % 3, None) >>]
Fan == [n \in 0..2 |-> IF n = 2 THEN << Edge(1, None), Edge(0, None) >> ELSE << >>]
\* Two nodes, the self-loop of node 1 registered before its edge from node 0.
Back == [n \in 0..1 |-> IF n = 1 THEN << Edge(1, None), Edge(0, None) >> ELSE << >>]
GraphTopologies == Topologies \cup { Chain3, Ring3, Fan, Back }

GraphInit == InitOn(GraphTopologies)

\* rti_common.rs:804-873 called for node_idx: the cache of the node is
\* brought up to date, or the process exits.
UpdateMinDelays(node_idx) ==
    /\ rti_mutex = "free"
    /\ LET r == update_min_delays_upstream(node_idx) IN
       IF r.exit
       THEN /\ rti_mutex' = "exited"
            /\ UNCHANGED <<min_delays, num_min_delays, flags>>
       ELSE /\ min_delays' = [min_delays EXCEPT ![node_idx] = r.min_delays]
            /\ num_min_delays' = [num_min_delays EXCEPT ![node_idx] = r.num_min_delays]
            /\ flags' = [flags EXCEPT ![node_idx] = r.flags]
            /\ UNCHANGED rti_mutex
    /\ UNCHANGED <<tag_call, relax, reported, graph, completed, last_granted, last_provisionally_granted,
                   next_event, state, notified, threads, calls>>

GraphNext ==
    \/ \E f \in Nodes : Connect(f)
    \/ \E f \in Nodes : StartTimeSent(f)
    \/ \E n \in Nodes : UpdateMinDelays(n)

GraphSpec == GraphInit /\ [][GraphNext]_vars

\* ------------------------------------------------------------------ tag.rs
\* The functions of tag.rs applied to every tag and every interval of the
\* scaled widths.
AllTags == [time : TimeRange, microstep : MicrostepRange]
Intervals == {None} \cup {Some(n) : n \in TimeRange}

\* tag.rs:195: the two sums of lf_tag_add are plain `+`.  Where a sum leaves
\* its type a build with overflow checks (the dev profile) panics there, and
\* a build without them (the release profile) wraps.
lf_tag_add_overflows(a, b) ==
    /\ a.time # NEVER /\ b.time # NEVER
    /\ a.time # FOREVER /\ b.time # FOREVER
    /\ \/ a.time + b.time \notin TimeRange
       \/ a.microstep + b.microstep \notin MicrostepRange

\* tag.rs:149: the microstep increment of lf_delay_tag is a plain `+ 1`.
\* The sum of tag.rs:157 cannot leave i64 past the test of tag.rs:141.
lf_delay_tag_overflows(tag, interval) ==
    /\ ~(tag.time = NEVER \/ IntervalLt(interval, Some(0)))
    /\ ~(tag.time >= FOREVER - unwrap(interval))
    /\ interval = Some(0)
    /\ tag.microstep + 1 \notin MicrostepRange

\* One call is examined at a time, from the state in which none has been
\* made.  What a call can come to: it returns, or, where its arithmetic overflows,
\* it returns the wrapped value or panics, as the build has it.
Outcomes(overflows) == IF overflows THEN {FALSE, TRUE} ELSE {FALSE}

CallCompare(tag1, tag2) ==
    /\ tag_call = NoCall
    /\ tag_call' = [NoCall EXCEPT !.fn = "lf_tag_compare", !.a = tag1, !.b = tag2,
                                  !.ordering = lf_tag_compare(tag1, tag2)]
    /\ UNCHANGED <<relax, reported, graph, nodes, notified, rti_mutex, threads, calls>>

CallDelayTag(tag, interval) ==
    /\ tag_call = NoCall
    /\ \E p \in Outcomes(lf_delay_tag_overflows(tag, interval)) :
         tag_call' = [NoCall EXCEPT !.fn = "lf_delay_tag", !.a = tag,
                        !.interval = interval, !.panicked = p,
                        !.result = IF p THEN never_tag
                                   ELSE lf_delay_tag(tag, interval)]
    /\ UNCHANGED <<relax, reported, graph, nodes, notified, rti_mutex, threads, calls>>

CallDelayStrict(tag, interval) ==
    /\ tag_call = NoCall
    /\ \E p \in Outcomes(lf_delay_tag_overflows(tag, interval)) :
         tag_call' = [NoCall EXCEPT !.fn = "lf_delay_strict", !.a = tag,
                        !.interval = interval, !.panicked = p,
                        !.result = IF p THEN never_tag
                                   ELSE lf_delay_strict(tag, interval)]
    /\ UNCHANGED <<relax, reported, graph, nodes, notified, rti_mutex, threads, calls>>

CallAdd(a, b) ==
    /\ tag_call = NoCall
    /\ \E p \in Outcomes(lf_tag_add_overflows(a, b)) :
         tag_call' = [NoCall EXCEPT !.fn = "lf_tag_add", !.a = a, !.b = b,
                        !.panicked = p,
                        !.result = IF p THEN never_tag ELSE lf_tag_add(a, b)]
    /\ UNCHANGED <<relax, reported, graph, nodes, notified, rti_mutex, threads, calls>>

TagInit == InitOn({Direct})

TagNext ==
    \/ tag_call = NoCall /\ \E tag1, tag2 \in AllTags : CallCompare(tag1, tag2)
    \/ tag_call = NoCall /\ \E tag \in AllTags, interval \in Intervals :
                               CallDelayTag(tag, interval)
    \/ tag_call = NoCall /\ \E tag \in AllTags, interval \in Intervals :
                               CallDelayStrict(tag, interval)
    \/ tag_call = NoCall /\ \E a, b \in AllTags : CallAdd(a, b)

TagSpec == TagInit /\ [][TagNext]_vars

\* ------------------------------------------------------------------ search
\* update_min_delays_upstream followed one critical section at a time, so
\* that its recursion is a walk through states.  A frame of
\* _update_min_delays_upstream is its node, delay_from_intermediate_so_far,
\* and the index at which its loop stands.

\* Node 1 with two edges from node 0, the longer registered first.
Twice == [n \in 0..1 |-> IF n = 1 THEN << Edge(0, Some(1)), Edge(0, None) >> ELSE << >>]
RelaxTopologies == GraphTopologies \cup { Twice }

RelaxInit == InitOn(RelaxTopologies)

\* rti_common.rs:885-903: the entry of _update_min_delays_upstream.  The
\* call returns at once for a node that is not connected, and otherwise
\* starts its loop.
RelaxCall(stack, end_idx, intermediate_idx, path_delays) ==
    LET inter == IF intermediate_idx < 0 THEN end_idx ELSE intermediate_idx
        delay_from_intermediate_so_far ==
            IF intermediate_idx < 0 THEN zero_tag
            ELSE path_delays[intermediate_idx + 1]
    IN  IF state[inter] = "NotConnected" THEN stack
        ELSE Append(stack, [inter |-> inter,
                            delay |-> delay_from_intermediate_so_far, i |-> 0])

\* rti_common.rs:805-834: the cache of node_idx is not valid; path_delays is
\* filled with FOREVER and the first call is made.
RelaxBegin(node_idx) ==
    /\ rti_mutex = "free"
    /\ ~relax.active
    /\ num_min_delays[node_idx] = 0
    /\ LET path_delays == [i \in 1..number_of_scheduling_nodes |-> forever_tag] IN
       relax' = [active |-> TRUE, end_idx |-> node_idx,
                 stack |-> RelaxCall(<< >>, node_idx, -1, path_delays),
                 path_delays |-> path_delays, count |-> 0]
    /\ UNCHANGED <<tag_call, reported, graph, nodes, notified, rti_mutex, threads, calls>>

\* The test of rti_common.rs:933 with equality let through.
RelaxesOrEqual(path_delay, recorded) == lf_tag_compare(path_delay, recorded) <= 0

\* rti_common.rs:933: the path found is shorter than the one recorded.
Relaxes(path_delay, recorded) == lf_tag_compare(path_delay, recorded) < 0

\* rti_common.rs:916-970: one iteration of the loop of the innermost call,
\* or its return when the loop is over.
RelaxIter ==
    /\ rti_mutex = "free"
    /\ relax.active
    /\ relax.stack # << >>
    /\ LET depth == Len(relax.stack)
           frame == relax.stack[depth]
           end_idx == relax.end_idx
       IN  IF frame.i >= num_upstream(frame.inter)
           THEN /\ relax' = [relax EXCEPT !.stack = SubSeq(relax.stack, 1, depth - 1)]
                /\ UNCHANGED flags
           ELSE
             LET upstream_idx == upstream[frame.inter][frame.i + 1]
                 d == upstream_delay[frame.inter][frame.i + 1]
                 path_delay == lf_delay_tag(frame.delay, d)
                 recorded == relax.path_delays[upstream_idx + 1]
                 advanced == [relax.stack EXCEPT ![depth].i = frame.i + 1]
             IN  IF Relaxes(path_delay, recorded)
                 THEN LET path_delays == VecInsert(relax.path_delays, upstream_idx, path_delay) IN
                      /\ relax' = [relax EXCEPT
                            !.count = IF recorded.time = FOREVER THEN @ + 1 ELSE @,
                            !.path_delays = path_delays,
                            !.stack = IF end_idx # upstream_idx
                                      THEN RelaxCall(advanced, end_idx, frame.inter, path_delays)
                                      ELSE advanced]
                      /\ flags' =
                            IF end_idx # upstream_idx THEN flags
                            ELSE LET f1 == FlagOr(flags[end_idx], IS_IN_CYCLE) IN
                                 [flags EXCEPT ![end_idx] =
                                    IF lf_tag_compare(path_delay, zero_tag) = 0
                                       /\ IntervalLt(d, Some(0))
                                    THEN FlagOr(f1, IS_IN_ZERO_DELAY_CYCLE)
                                    ELSE FlagClear(f1, IS_IN_ZERO_DELAY_CYCLE)]
                 ELSE /\ relax' = [relax EXCEPT !.stack = advanced]
                      /\ UNCHANGED flags
    /\ UNCHANGED <<tag_call, reported, graph, completed, last_granted, last_provisionally_granted,
                   next_event, state, min_delays, num_min_delays, notified,
                   rti_mutex, threads, calls>>

\* rti_common.rs:836-871: the first call has returned; the entries below
\* FOREVER are put onto the node, or the process exits.
RelaxEnd ==
    /\ rti_mutex = "free"
    /\ relax.active
    /\ relax.stack = << >>
    /\ LET node_idx == relax.end_idx
           found == FiniteEntries(relax.path_delays, 0)
       IN  /\ num_min_delays' = [num_min_delays EXCEPT ![node_idx] = relax.count]
           /\ IF Len(found) > relax.count
              THEN /\ rti_mutex' = "exited"
                   /\ UNCHANGED min_delays
              ELSE /\ min_delays' = [min_delays EXCEPT ![node_idx] = found \o @]
                   /\ UNCHANGED rti_mutex
    /\ relax' = [relax EXCEPT !.active = FALSE]
    /\ UNCHANGED <<tag_call, reported, graph, completed, last_granted, last_provisionally_granted,
                   next_event, state, flags, notified, threads, calls>>

RelaxNext ==
    \/ \E f \in Nodes : Connect(f)
    \/ \E f \in Nodes : StartTimeSent(f)
    \/ \E n \in Nodes : RelaxBegin(n)
    \/ RelaxIter
    \/ RelaxEnd

\* The thread that runs the search is scheduled: it goes on while it can.
RelaxSpec == RelaxInit /\ [][RelaxNext]_vars /\ WF_vars(RelaxIter \/ RelaxEnd)

\* ------------------------------------------------------------------ claims
\* The tag of the least element of a non-empty set of tags.
MinTag(S) == CHOOSE t \in S : \A s \in S : lf_tag_compare(t, s) <= 0

\* The minimum delay of the paths of at most k edges from each node to f,
\* through connected nodes, accumulated with lf_delay_tag from ZERO at f;
\* FOREVER where there is no such path.
RECURSIVE PathDelays(_, _)
PathDelays(f, k) ==
    IF k = 0 THEN [u \in Nodes |-> forever_tag]
    ELSE LET prev == PathDelays(f, k - 1) IN
         [u \in Nodes |->
            MinTag({ prev[u] } \cup
                   { lf_delay_tag(IF v = f THEN zero_tag ELSE prev[v], upstream_delay[v][j]) :
                       <<v, j>> \in { p \in Nodes \X (1..number_of_scheduling_nodes + 1) :
                                         /\ state[p[1]] # "NotConnected"
                                         /\ p[2] <= Len(upstream[p[1]])
                                         /\ upstream[p[1]][p[2]] = u } })]

\* The NET of u, an upstream that has not reported one counting as the start.
NetOrStart(u) ==
    IF lf_tag_compare(next_event[u], never_tag) = 0 THEN Tag(start_time, 0)
    ELSE next_event[u]

\* No connected node transitively upstream of f can still send f a message
\* with a tag <= t.
EimtPathSafe(f, t) ==
    LET D == PathDelays(f, number_of_scheduling_nodes) IN
    \A u \in Nodes \ {f} :
       (state[u] # "NotConnected" /\ lf_tag_compare(D[u], forever_tag) < 0)
       => lf_tag_compare(lf_tag_add(NetOrStart(u), D[u]), t) > 0

\* Every connected immediate upstream of f has completed far enough for t.
FastPathSafe(f, t) ==
    \A j \in 1..Len(upstream[f]) :
       state[upstream[f][j]] # "NotConnected"
       => lf_tag_compare(t, lf_delay_strict(completed[upstream[f][j]],
                                            upstream_delay[f][j])) <= 0

\* C1: whenever a TAG(f,t) is about to be written, no connected upstream node
\* can still deliver a message to f at a tag <= t, by the EIMT bound over the
\* transitive upstream nodes or by the completed-tag bound over the
\* immediate ones.
C1_TagIsSafe ==
    \A h \in Nodes :
       pc[h] = "tag_write"
       => \/ EimtPathSafe(Target(h), loc[h].tag)
          \/ FastPathSafe(Target(h), loc[h].tag)

\* C2: when a thread records a TAG in last_granted, the tag is strictly
\* greater than last_granted as it stands then.
C2_LastGrantedIncreases ==
    \A h \in Nodes :
       (pc[h] = "tag_update" /\ ~loc[h].error_occurred)
       => lf_tag_compare(loc[h].tag, last_granted[Target(h)]) > 0

\* C3: when a thread records a PTAG in last_provisionally_granted, the tag is
\* strictly greater than last_provisionally_granted as it stands then, so no
\* PTAG is sent twice at one tag.
C3_LastProvisionalIncreases ==
    \A h \in Nodes :
       pc[h] = "ptag_update"
       => lf_tag_compare(loc[h].tag, last_provisionally_granted[Target(h)]) > 0

\* C4: a TAG attempt at the tag of an earlier PTAG (t = last_provisionally_
\* granted, t > last_granted, destination Granted) goes on to write the frame.
C4_TagConfirmsPtag ==
    [][\A h \in Nodes :
         (/\ pc[h] = "tag_check"
          /\ pc'[h] # "tag_check"
          /\ state[Target(h)] = "Granted"
          /\ loc[h].tag = last_provisionally_granted[Target(h)]
          /\ lf_tag_compare(loc[h].tag, last_granted[Target(h)]) > 0)
         => pc'[h] = "tag_write"]_vars

\* C5: a PTAG frame is written only with a tag strictly greater than the
\* last_granted of its destination.
C5_PtagAboveLastGranted ==
    \A h \in Nodes :
       pc[h] = "ptag_write"
       => lf_tag_compare(loc[h].tag, last_granted[Target(h)]) > 0

\* C6: every connected node has completed <= last_granted.
C6_CompletedAtMostGranted ==
    \A n \in Nodes :
       state[n] # "NotConnected"
       => lf_tag_compare(completed[n], last_granted[n]) <= 0

\* C7: a frame is written only while its destination is Granted, and an issue
\* attempt for a NotConnected destination writes nothing and changes no field
\* of any node.
C7_WrittenOnlyWhileGranted ==
    [][\A h \in Nodes :
         /\ (pc[h] \in {"tag_write", "ptag_write"} /\ pc'[h] # pc[h])
            => state[Target(h)] = "Granted"
         /\ (/\ pc[h] \in {"tag_check", "ptag_check"}
             /\ pc'[h] # pc[h]
             /\ state[Target(h)] = "NotConnected")
            => (pc'[h] \notin {"tag_write", "ptag_write"} /\ UNCHANGED nodes)]_vars

\* C8: a thread that waits for a Pending destination eventually leaves the
\* wait.
C8_PendingWaitEnds ==
    (\E h \in Nodes : pc[h] = "wait") ~> (\A h \in Nodes : pc[h] # "wait")

\* C9: when the write of TAG(f,t) returned an error, the update makes f
\* NotConnected, leaves last_granted and every other node's state as they
\* were, and the call goes on with its remaining federates.
C9_WriteErrorIsSoft ==
    [][\A h \in Nodes :
         (pc[h] = "tag_update" /\ loc[h].written = "err" /\ pc'[h] # "tag_update")
         => /\ state'[Target(h)] = "NotConnected"
            /\ last_granted' = last_granted
            /\ \A n \in Nodes \ {Target(h)} : state'[n] = state[n]
            /\ targets'[h] = Tail(targets[h])
            /\ pc'[h] = IF Tail(targets[h]) = << >> THEN "idle" ELSE "fast"
            /\ rti_mutex' = "free"]_vars

\* C9 witness: the write of a TAG has failed, and the call has federates left.
C9_Witness ==
    \E h \in Nodes :
       /\ pc[h] = "tag_update"
       /\ loc[h].written = "err"
       /\ state[Target(h)] = "Granted"
       /\ Len(targets[h]) > 1

\* C10: after a short write of a TAG frame, the update makes f NotConnected
\* and leaves last_granted as it was.
C10_ShortWriteIsAnError ==
    [][\A h \in Nodes :
         (pc[h] = "tag_update" /\ loc[h].written = "short" /\ pc'[h] # "tag_update")
         => /\ state'[Target(h)] = "NotConnected"
            /\ last_granted'[Target(h)] = last_granted[Target(h)]]_vars

\* C11: when the write of PTAG(f,t) fails, by an error or by a short write,
\* f becomes NotConnected and last_provisionally_granted stays as it was.
C11_PtagFailureIsSoft ==
    [][\A h \in Nodes :
         /\ (pc[h] = "ptag_write" /\ pc'[h] \notin {"ptag_write", "ptag_update"})
            => /\ state'[Target(h)] = "NotConnected"
               /\ last_provisionally_granted'[Target(h)] =
                      last_provisionally_granted[Target(h)]
         /\ (pc[h] = "ptag_update" /\ loc[h].written = "err" /\ pc'[h] # "ptag_update")
            => /\ state'[Target(h)] = "NotConnected"
               /\ last_provisionally_granted'[Target(h)] =
                      last_provisionally_granted[Target(h)]]_vars

\* The TAG side of the decision fires for fed_id on the EIMT t_d: the
\* completed-tag path or scenario (1).
TagSideFires(fed_id, t_d) == FastPathFires(fed_id) \/ Case1(t_d, fed_id)

\* C12: whenever a PTAG is being issued to a node (the frame is about to be
\* written or has just been written), the node carries the zero-delay-cycle
\* flag or the TAG side of the decision fires for it.  The upstream
\* propagation of a PTAG is part of the same attempt.
C12_PtagNeedsCycleOrTag ==
    \A h \in Nodes :
       pc[h] \in {"ptag_write", "ptag_update", "ptag_upstream"}
       => \/ FlagTest(flags[Target(h)], IS_IN_ZERO_DELAY_CYCLE)
          \/ TagSideFires(Target(h), loc[h].t_d)

\* C12 witness: a PTAG frame has been written in full.
C12_Witness ==
    \E h \in Nodes : pc[h] = "ptag_update" /\ loc[h].written = "ok"

\* The least accumulated delay of a cycle through n over connected nodes,
\* FOREVER when n lies on no cycle.
CycleDelay(n) == PathDelays(n, number_of_scheduling_nodes)[n]

\* The step brings the min_delays of n up to date from an empty cache.
Rebuilds(n) ==
    /\ state[n] # "NotConnected"
    /\ num_min_delays[n] = 0
    /\ min_delays'[n] # min_delays[n]

\* C13: when update_min_delays_upstream has rebuilt the cache of a connected
\* node n, the zero-delay-cycle flag of n is set exactly when some cycle
\* through n, of any length, has accumulated delay ZERO, and the cycle flag
\* is set when n lies on a cycle.
C13_FlagsMatchCycles ==
    [][\A n \in Nodes :
         Rebuilds(n)
         => /\ FlagTest(flags'[n], IS_IN_ZERO_DELAY_CYCLE) <=> (CycleDelay(n) = zero_tag)
            /\ (CycleDelay(n) # forever_tag) => FlagTest(flags'[n], IS_IN_CYCLE)]_vars

\* C14: two Granted nodes, each the other's upstream through a no-delay
\* edge, have both reported the same NET t and nothing else has been reported;
\* once both calls have returned, both nodes carry the zero-delay-cycle flag
\* and a PTAG at t has been issued to both.
C14_MutualCycleGetsPtag ==
    \A t \in InputTags :
       (/\ upstream = [n \in 0..1 |-> << 1 - n >>]
        /\ upstream_delay = [n \in 0..1 |-> << None >>]
        /\ \A n \in Nodes : /\ state[n] = "Granted"
                             /\ next_event[n] = t
                             /\ completed[n] = never_tag
                             /\ pc[n] = "idle"
        /\ t.time > start_time
        /\ calls = 2
        /\ rti_mutex = "free")
       => \A n \in Nodes : /\ FlagTest(flags[n], IS_IN_ZERO_DELAY_CYCLE)
                            /\ last_provisionally_granted[n] = t

\* The nodes from which a path over connected nodes leads to n.
TransitiveUpstream(n) ==
    { u \in Nodes : PathDelays(n, number_of_scheduling_nodes)[u] # forever_tag }

\* C16: when update_min_delays_upstream has rebuilt the cache of a connected
\* node n, the ids in min_delays of n are exactly the nodes other than n that
\* are transitively upstream of n.
C16_MinDelaysAreTransitiveUpstream ==
    [][\A n \in Nodes :
         Rebuilds(n)
         => { min_delays'[n][k].id : k \in 1..Len(min_delays'[n]) }
               = TransitiveUpstream(n) \ {n}]_vars

\* A grant at the NET of n would not be redundant, n has exactly one upstream
\* node, through a no-delay edge, and both have reported the same NET.
SameNetAsOnlyUpstream(n) ==
    /\ Len(upstream[n]) = 1
    /\ upstream_delay[n][1] = None
    /\ state[n] = "Granted"
    /\ state[upstream[n][1]] = "Granted"
    /\ next_event[n] # never_tag
    /\ next_event[n] = next_event[upstream[n][1]]
    /\ lf_tag_compare(completed[upstream[n][1]], next_event[n]) < 0
    /\ lf_tag_compare(last_granted[n], next_event[n]) < 0
    /\ lf_tag_compare(last_provisionally_granted[n], next_event[n]) < 0

\* C15: for a node with exactly one upstream, through a no-delay edge, whose
\* NET equals the NET of the upstream, the decision on the EIMT issues a PTAG
\* at that NET, and no TAG.
C15_SameNetGetsPtag ==
    [][\A h \in Nodes :
         (pc[h] = "decide" /\ pc'[h] # "decide" /\ SameNetAsOnlyUpstream(Target(h)))
         => /\ pc'[h] = "ptag_check"
            /\ loc'[h].tag = next_event[Target(h)]]_vars

\* C17: once min_delays of node d has been built, another node, upstream of
\* d, that becomes NotConnected resets num_min_delays of d to 0.  (The graph itself
\* is registered before the first grant attempt.)
C17_DisconnectInvalidatesCache ==
    [][\A d \in Nodes : \A j \in 1..Len(upstream[d]) :
         (/\ num_min_delays[d] > 0
          /\ upstream[d][j] # d
          /\ state[upstream[d][j]] # "NotConnected"
          /\ state'[upstream[d][j]] = "NotConnected")
         => num_min_delays'[d] = 0]_vars

\* The nodes reached from f along at most k downstream edges.
RECURSIVE DownstreamWithin(_, _)
DownstreamWithin(f, k) ==
    IF k = 0 THEN {}
    ELSE LET prev == DownstreamWithin(f, k - 1) IN
         prev \cup UNION { { downstream[v][i] : i \in 1..Len(downstream[v]) } :
                              v \in prev \cup {f} }

\* C18: the thread of a node f with no upstream never attempts a grant for f
\* itself (no TAG, no PTAG, no wait for f), and an on_net(f) sets it to try
\* exactly the nodes reachable downstream of f.
C18_SourceNodeIsNotGranted ==
    /\ [](\A h \in Nodes :
            (Len(upstream[h]) = 0 /\ pc[h] # "idle") => Target(h) # h)
    /\ [][\A h \in Nodes :
            (/\ Len(upstream[h]) = 0
             /\ pc[h] = "idle"
             /\ calls' = calls + 1
             /\ completed' = completed
             /\ targets'[h] # targets[h])
            => { targets'[h][k] : k \in 1..Len(targets'[h]) }
                  = DownstreamWithin(h, number_of_scheduling_nodes) \ {h}]_vars

\* C18 witness: the thread of a node with no upstream, which has reported a
\* NET and no LTC, is working through its downstream nodes.
C18_Witness ==
    \E h \in Nodes :
       /\ Len(upstream[h]) = 0
       /\ completed[h] = never_tag
       /\ next_event[h].time > start_time
       /\ pc[h] = "tag_check"
       /\ Target(h) # h

\* C19: an iteration of the EIMT loop of a Granted node over a cached entry
\* whose node is another node, which has reported a NET and is now NotConnected,
\* leaves the EIMT as it was: the NET of a NotConnected node constrains
\* nothing.
C19_DisconnectedUpstreamIgnored ==
    [][\A h \in Nodes :
         (/\ pc[h] = "eimt_loop"
          /\ state[Target(h)] = "Granted"
          /\ loc'[h].i = loc[h].i + 1
          /\ loc[h].i + 1 <= Len(min_delays[Target(h)])
          /\ min_delays[Target(h)][loc[h].i + 1].id # Target(h)
          /\ state[min_delays[Target(h)][loc[h].i + 1].id] = "NotConnected"
          /\ next_event[min_delays[Target(h)][loc[h].i + 1].id].time > start_time)
         => loc'[h].t_d = loc[h].t_d]_vars

\* The chain A = 0 -> B = 1 with a positive delay, both Granted, A and B have
\* reported the NET t, B has been granted TAG t, A has completed t, and the
\* thread of A is at the start of the grant attempt for B.
ChainAfterLtc(h, t) ==
    /\ upstream = [n \in 0..1 |-> IF n = 1 THEN << 0 >> ELSE << >>]
    /\ upstream_delay[1][1] # None
    /\ unwrap(upstream_delay[1][1]) > 0
    /\ \A n \in Nodes : state[n] = "Granted" /\ next_event[n] = t
    /\ completed[0] = t
    /\ last_granted[1] = t
    /\ h = 0
    /\ pc[h] = "fast"
    /\ Target(h) = 1

\* The same chain before the LTC: on_net(A,t) and on_net(B,t), t after the
\* start, are the two calls made so far, and the thread of B, with the cache
\* of B built by the earlier call, decides on the EIMT.
ChainAfterNets(h, t) ==
    /\ upstream = [n \in 0..1 |-> IF n = 1 THEN << 0 >> ELSE << >>]
    /\ calls = 2
    /\ t.time > start_time
    /\ upstream_delay[1][1] # None
    /\ unwrap(upstream_delay[1][1]) > 0
    /\ \A n \in Nodes : /\ state[n] = "Granted"
                         /\ next_event[n] = t
                         /\ completed[n] = never_tag
                         /\ last_granted[n] = never_tag
    /\ h = 1
    /\ pc[h] = "decide"
    /\ Target(h) = 1
    /\ loc[h].n0 = 1

\* C20 as stated: in the chain A -> B with a positive delay, after
\* on_net(A,t), on_net(B,t), on_ltc(A,t), the completed-tag path does not
\* fire for B: the attempt goes on to the EIMT.
C20_FastPathRejected ==
    [][\A h \in Nodes, t \in InputTags :
         (ChainAfterLtc(h, t) /\ pc'[h] # pc[h]) => pc'[h] = "eimt"]_vars

\* C20 amended: on_net(B,t) is answered by TAG(B,t) on the EIMT path, the
\* EIMT being t + delay; after on_ltc(A,t) the completed-tag path fires for B
\* with the bound (t + delay - 1, u32::MAX), which is >= the NET t, and the
\* attempt goes on to issue a TAG at that bound.
C20_FastPathGrantsBound ==
    [][\A h \in Nodes, t \in InputTags :
         /\ (ChainAfterNets(h, t) /\ pc'[h] # pc[h])
            => /\ loc[h].t_d = Tag(t.time + unwrap(upstream_delay[1][1]), 0)
               /\ pc'[h] = "tag_check"
               /\ loc'[h].tag = t
         /\ (ChainAfterLtc(h, t) /\ pc'[h] # pc[h])
            => /\ pc'[h] = "tag_check"
               /\ loc'[h].tag = Tag(t.time + unwrap(upstream_delay[1][1]) - 1,
                                     FOREVER_MICROSTEP)]_vars

\* C20 witness: the three calls have been made and the thread of A is about
\* to decide for B.
C20_Witness ==
    \E h \in Nodes, t \in InputTags :
       ChainAfterLtc(h, t) /\ t.time > start_time /\ calls = 3

\* The lexicographic order on (time, microstep).
LexLess(x, y) ==
    \/ x.time < y.time
    \/ x.time = y.time /\ x.microstep < y.microstep

\* C21: lf_tag_compare is the lexicographic order on (time, microstep):
\* compare(a,b) is -1, 0 or 1 as a is below, equal to or above b, so that it
\* is 0 exactly for equal tags; compare(a,b) = -compare(b,a); it is
\* transitive; NEVER is below or equal to and FOREVER above or equal to
\* every tag.
C21_CompareIsLexicographicOrder ==
    tag_call.fn = "lf_tag_compare" =>
        LET a == tag_call.a
            b == tag_call.b
        IN  /\ tag_call.ordering = (IF LexLess(a, b) THEN -1
                                    ELSE IF LexLess(b, a) THEN 1 ELSE 0)
            /\ (tag_call.ordering = 0) <=> (a = b)
            /\ tag_call.ordering = -lf_tag_compare(b, a)
            /\ \A c \in AllTags :
                  (tag_call.ordering <= 0 /\ lf_tag_compare(b, c) <= 0)
                      => lf_tag_compare(a, c) <= 0
            /\ (a = never_tag => tag_call.ordering <= 0)
            /\ (b = forever_tag => tag_call.ordering <= 0)

\* C21 witness: two tags of equal time have been compared and the microsteps
\* decided the order.
C21_Witness ==
    /\ tag_call.fn = "lf_tag_compare"
    /\ tag_call.a.time = tag_call.b.time
    /\ tag_call.a.microstep > tag_call.b.microstep
    /\ tag_call.ordering = 1

\* C22 as stated: for every tag a, lf_tag_add(a, ZERO) = a,
\* lf_tag_add(a, NEVER) = NEVER and lf_tag_add(a, FOREVER) = FOREVER.
C22_AddLawsForEveryTag ==
    (tag_call.fn = "lf_tag_add" /\ ~tag_call.panicked) =>
        /\ (tag_call.b = zero_tag => tag_call.result = tag_call.a)
        /\ (tag_call.b = never_tag => tag_call.result = never_tag)
        /\ (tag_call.b = forever_tag => tag_call.result = forever_tag)

\* C22 amended: lf_tag_add(a, NEVER) = NEVER for every a; a tag a of time
\* NEVER gives NEVER and, failing that, one of time FOREVER gives FOREVER,
\* whatever its microstep and also against ZERO and FOREVER; for every other
\* a, lf_tag_add(a, ZERO) = a and lf_tag_add(a, FOREVER) = FOREVER.
C22_AddLaws ==
    (tag_call.fn = "lf_tag_add" /\ ~tag_call.panicked) =>
        LET a == tag_call.a IN
        /\ (tag_call.b = never_tag => tag_call.result = never_tag)
        /\ (tag_call.b = zero_tag =>
               tag_call.result = (IF a.time = NEVER THEN never_tag
                                  ELSE IF a.time = FOREVER THEN forever_tag
                                  ELSE a))
        /\ (tag_call.b = forever_tag =>
               tag_call.result = (IF a.time = NEVER THEN never_tag
                                  ELSE forever_tag))

\* C22 witness: NEVER and FOREVER have been added, and NEVER came back.
C22_Witness ==
    /\ tag_call.fn = "lf_tag_add"
    /\ tag_call.a = never_tag
    /\ tag_call.b = forever_tag
    /\ tag_call.result = never_tag

\* What C23 states of the sum of two tags of finite time.
SaturatedSum(a, b) ==
    IF a.microstep + b.microstep > FOREVER_MICROSTEP THEN forever_tag
    ELSE IF a.time + b.time > FOREVER THEN forever_tag
    ELSE IF a.time + b.time < NEVER /\ b.time < 0 THEN never_tag
    ELSE Tag(a.time + b.time, a.microstep + b.microstep)

\* C23: lf_tag_add saturates: for a and b of finite time the call returns
\* FOREVER when the sum of the microsteps overflows u32 or the sum of the
\* times overflows i64 upward, NEVER when the sum of the times underflows
\* with b.time negative, and the componentwise sum otherwise.
C23_AddSaturates ==
    (/\ tag_call.fn = "lf_tag_add"
     /\ tag_call.a.time \notin {NEVER, FOREVER}
     /\ tag_call.b.time \notin {NEVER, FOREVER}) =>
        /\ ~tag_call.panicked
        /\ tag_call.result = SaturatedSum(tag_call.a, tag_call.b)

\* An interval that is None or negative.
NoDelay(d) == d = None \/ unwrap(d) < 0

C25_DelayStrictKeepsNoDelay ==
    (tag_call.fn = "lf_delay_strict" /\ ~tag_call.panicked) =>
        LET d == tag_call.interval
            delayed == lf_delay_tag(tag_call.a, d)
        IN  tag_call.result =
              (IF \/ d \in {Some(0), None, Some(NEVER), Some(FOREVER)}
                  \/ delayed.time \in {NEVER, FOREVER}
               THEN delayed
               ELSE Tag(delayed.time - 1, FOREVER_MICROSTEP))

\* C26: the step that decides on the EIMT t_d of node f, taken when the
\* completed-tag path has not fired, goes on to issue TAG(f, NET) exactly
\* when t_d > NET, t_d >= LPT and t_d > LT, and PTAG(f, NET) exactly when
\* t_d = NET, f is flagged as being on a zero-delay cycle, t_d > LPT and
\* t_d > LT, a NET of NEVER giving no grant; in every other case nothing is
\* issued.
C26_DecisionOnEimt ==
    [][\A h \in Nodes :
        (pc[h] = "decide" /\ pc'[h] # "decide") =>
            LET f == Target(h)
                t_d == loc[h].t_d
                net == next_event[f]
                tag_case ==
                    /\ lf_tag_compare(t_d, net) > 0
                    /\ lf_tag_compare(t_d, last_provisionally_granted[f]) >= 0
                    /\ lf_tag_compare(t_d, last_granted[f]) > 0
                ptag_case ==
                    /\ lf_tag_compare(t_d, net) = 0
                    /\ FlagTest(flags'[f], IS_IN_ZERO_DELAY_CYCLE)
                    /\ lf_tag_compare(t_d, last_provisionally_granted[f]) > 0
                    /\ lf_tag_compare(t_d, last_granted[f]) > 0
            IN  /\ (pc'[h] = "tag_check") <=> (tag_case /\ net # never_tag)
                /\ (pc'[h] = "ptag_check") <=> (ptag_case /\ net # never_tag)
                /\ pc'[h] \in {"tag_check", "ptag_check"}
                     => loc'[h].tag = net /\ targets'[h] = targets[h]
                /\ pc'[h] \notin {"tag_check", "ptag_check"}
                     => pc'[h] \in {"idle", "fast"} /\ targets'[h] = Tail(targets[h])]_vars

\* C26 witness: a thread has decided on an EIMT equal to the NET of a node
\* on a zero-delay cycle, and is about to issue the PTAG.
C26_Witness ==
    \E h \in Nodes :
       /\ pc[h] = "ptag_check"
       /\ loc[h].tag = next_event[Target(h)]
       /\ lf_tag_compare(loc[h].t_d, loc[h].tag) = 0
       /\ FlagTest(flags[Target(h)], IS_IN_ZERO_DELAY_CYCLE)

\* The adjusted completed tags of the connected immediate upstream nodes of f.
UpstreamBounds(f) ==
    { lf_delay_strict(completed[upstream[f][j]], upstream_delay[f][j]) :
        j \in { k \in 1..Len(upstream[f]) : state[upstream[f][k]] # "NotConnected" } }

\* C27: the first step of a grant attempt for node f takes M, the least of
\* the adjusted completed tags of the connected immediate upstream nodes
\* (FOREVER when there is none), and goes on to issue TAG(f, M) exactly when
\* M > last_granted and M >= next_event; it does so without touching
\* min_delays, and otherwise it goes on to the EIMT.
C27_FastPath ==
    [][\A h \in Nodes :
        (pc[h] = "fast" /\ pc'[h] # "fast") =>
            LET f == Target(h)
                M == MinTag(UpstreamBounds(f) \cup {forever_tag})
                fires == /\ lf_tag_compare(M, last_granted[f]) > 0
                         /\ lf_tag_compare(M, next_event[f]) >= 0
            IN  /\ fires => pc'[h] = "tag_check" /\ loc'[h].tag = M
                /\ ~fires => pc'[h] = "eimt"
                /\ UNCHANGED <<nodes, targets>>]_vars

\* C27 witness: a thread is about to issue a TAG above the NET of the node,
\* which is the adjusted completed tag of a connected upstream node.
C27_Witness ==
    \E h \in Nodes :
       /\ pc[h] = "tag_check"
       /\ lf_tag_compare(loc[h].tag, next_event[Target(h)]) > 0
       /\ loc[h].tag \in UpstreamBounds(Target(h))
       /\ loc[h].tag.time # FOREVER

\* C28: every computation of the EIMT of a node f takes its minimum over
\* all the entries of min_delays of f as brought up to date at its start,
\* also when it is the computation that builds the cache: the number of
\* entries it goes through is the number the update has left, and it
\* returns FOREVER without looking at any entry only when there is none.
C28_EimtReadsUpToDateCache ==
    [][\A h \in Nodes :
        (pc[h] = "eimt" /\ pc'[h] # "eimt") =>
            /\ loc'[h].n0 = num_min_delays'[Target(h)]
            /\ (pc'[h] = "decide" => min_delays'[Target(h)] = << >>)]_vars

\* C29: an iteration of the EIMT loop that finds the next_event of the
\* upstream node u at NEVER sets it to (start_time, 0), and the candidate of
\* u in this iteration is that start tag plus the min delay.
C29_StartTagIsTheCandidate ==
    [][\A h \in Nodes :
        (pc[h] = "eimt_loop" /\ loc'[h].i = loc[h].i + 1) =>
            LET entry == min_delays[Target(h)][loc[h].i + 1]
                candidate == lf_tag_add(Tag(start_time, 0), entry.min_delay)
            IN  next_event[entry.id] = never_tag =>
                  /\ next_event'[entry.id] = Tag(start_time, 0)
                  /\ loc'[h].t_d = (IF lf_tag_compare(candidate, loc[h].t_d) < 0
                                    THEN candidate ELSE loc[h].t_d)]_vars

\* The nodes with an edge to n.
ImmediateUpstream(n) == { upstream[n][j] : j \in 1..Len(upstream[n]) }

\* C30: when update_min_delays_upstream has rebuilt the cache of a connected
\* node n, every entry (u, D) of min_delays of n has for D the least delay
\* accumulated with lf_delay_tag from ZERO at n along the paths from u to n
\* through connected nodes, and every connected node that reaches n in two
\* or more hops only is present with that delay.
C30_MinDelaysAreShortestPaths ==
    [][\A n \in Nodes :
         Rebuilds(n)
         => /\ \A k \in 1..Len(min_delays'[n]) :
                  min_delays'[n][k].min_delay
                     = PathDelays(n, number_of_scheduling_nodes)[min_delays'[n][k].id]
            /\ \A u \in TransitiveUpstream(n) \ (ImmediateUpstream(n) \cup {n}) :
                  state[u] # "NotConnected" =>
                  \E k \in 1..Len(min_delays'[n]) :
                     /\ min_delays'[n][k].id = u
                     /\ min_delays'[n][k].min_delay
                           = PathDelays(n, number_of_scheduling_nodes)[u]]_vars

\* C31: the propagation of a PTAG to the upstream nodes goes on to its end
\* and returns: no iteration of its loop leaves the issuing thread blocked
\* on the federation mutex or the mutex lost.
C31_PtagPropagationReturns ==
    [][\A h \in Nodes, r \in RelockOutcomes :
          PtagUpstream(h, r) => rti_mutex' = "free"]_vars

\* C32: update_min_delays_upstream terminates on every graph: a relaxation
\* puts at the index of the upstream node a path delay strictly below the
\* one recorded there, and every search that has begun comes to its end.
C32_SearchTerminates ==
    /\ [][(relax.active /\ relax'.path_delays # relax.path_delays) =>
            LET frame == relax.stack[Len(relax.stack)]
                upstream_idx == upstream[frame.inter][frame.i + 1]
            IN  lf_tag_compare(relax'.path_delays[upstream_idx + 1],
                               relax.path_delays[upstream_idx + 1]) < 0]_vars
    /\ (relax.active ~> ~relax.active)

\* C32 witness: a recursive call is running after two relaxations, on a
\* node that is its own upstream.
C32_Witness ==
    /\ relax.active
    /\ Len(relax.stack) >= 2
    /\ Len(relax.path_delays) >= number_of_scheduling_nodes + 2
    /\ \E j \in 1..num_upstream(relax.end_idx) :
          upstream[relax.end_idx][j] = relax.end_idx

\* C33: one on_net(f, ntag) sets the next_event of f to ntag and sets the
\* thread to attempt a grant for f first, if and only if f has an upstream
\* node, and then once for every node other than f reachable from f through
\* downstream edges and for no other node, on cyclic graphs too; the thread
\* then takes these attempts one after the other and adds none.
C33_OnNetAttempts ==
    /\ [][\A h \in Nodes, t \in InputTags :
            OnNet(h, t) =>
              LET list == targets'[h]
                  reachable == DownstreamWithin(h, number_of_scheduling_nodes) \ {h}
              IN  /\ next_event'[h] = t
                  /\ \A j, k \in 1..Len(list) : list[j] = list[k] => j = k
                  /\ { list[k] : k \in 1..Len(list) }
                        = reachable \cup (IF num_upstream(h) > 0 THEN {h} ELSE {})
                  /\ num_upstream(h) > 0 => list[1] = h]_vars
    /\ [][\A h \in Nodes :
            pc[h] # "idle" => targets'[h] \in { targets[h], Tail(targets[h]) }]_vars

\* C33 witness: a node on a cycle has reported a NET; its thread has made
\* the attempt for the node itself and is at the attempt for the other node
\* of the cycle, the last of the call.
C33_Witness ==
    \E h \in Nodes :
       /\ calls = 1
       /\ num_upstream(h) > 0
       /\ h \in DownstreamWithin(h, number_of_scheduling_nodes)
       /\ pc[h] = "fast"
       /\ Len(targets[h]) = 1
       /\ Target(h) # h

\* C34: on every graph the counter num_min_delays of a node is the number
\* of entries of its min_delays, so that a loop over 0..num_min_delays stays
\* inside min_delays, and the exit of the materialisation on a wrong count
\* is never taken.
C34_CountMatchesEntries ==
    /\ \A n \in Nodes : num_min_delays[n] = Len(min_delays[n])
    /\ rti_mutex # "exited"

\* C35: lf_delay_tag never moves a tag backwards: whenever it returns, for
\* every tag t and every interval d, the tag returned is not below t.
C35_DelayTagNotBackwards ==
    (tag_call.fn = "lf_delay_tag" /\ ~tag_call.panicked) =>
        lf_tag_compare(tag_call.result, tag_call.a) >= 0

\* C36: a thread that waits, inside the issuing of a TAG or a PTAG, for a
\* Pending destination does not hold the federation mutex, so that the other
\* threads can take it and the destination can be made Granted.
C36_WaitWithoutMutex ==
    \A h \in Nodes : pc[h] = "wait" => rti_mutex = "free"

\* C37: a grant decided on the EIMT (scenario 1 TAG or scenario 2 PTAG) for
\* a federate carries the NET that the federate reported itself through
\* on_net, never the (start_time, 0) that the engine wrote into its
\* next_event while it computed the EIMT of another node.
C37_GrantsAtReportedNet ==
    [][\A h \in Nodes :
          (pc[h] = "decide" /\ Decide(h)
                            /\ pc'[h] \in {"tag_check", "ptag_check"}) =>
              loc'[h].tag = reported[Target(h)]]_vars

====
